---- MODULE Spec2Model ----
(***************************************************************************)
(* Model of the crawl-ingestion pipeline.                                  *)
(*                                                                         *)
(* Spec: one run of batcher.process_index, driving                         *)
(* CCDownloader.download_and_unzip for every index row, filtering every    *)
(* payload line, and flushing batches through publish_batch against a      *)
(* marker store (ProcessedURLTracker).  The run is cut into steps at its   *)
(* external calls: one HTTP request, one payload line, one queue publish,  *)
(* one marker write.                                                       *)
(*                                                                         *)
(* SpecRuns: successive runs of process_index over the same index and the  *)
(* same marker store, a run ending when the process dies inside            *)
(* _track_processed_urls.                                                  *)
(*                                                                         *)
(* SpecReader: one `with CSVIndexReader(...)` scope and the next() calls   *)
(* made inside it.                                                         *)
(*                                                                         *)
(* SpecStore: a caller's calls on ProcessedURLTracker (is_processed,       *)
(* mark_processed) and on MinIOStorage (put_object, key_exists), each cut  *)
(* into the executions of its body that tenacity makes.                    *)
(*                                                                         *)
(* SpecTokenizer: Tokenizer.tokenize_with_chunks and create_document       *)
(* applied to one text, for every encoder output, max_length and stride    *)
(* within the bounds.                                                      *)
(*                                                                         *)
(* SpecQueue: two worker processes consuming from one queue under          *)
(* basic_qos(prefetch_count=1) with manual acknowledgment; process_batch   *)
(* is cut into its parse, one step per item, and the acknowledgment.       *)
(*                                                                         *)
(* SpecWorker: one worker.process_batch call on one queue message, cut     *)
(* into the parse, one step per item and one step per archive record.      *)
(***************************************************************************)
EXTENDS Integers, Sequences, FiniteSets, TLC

\* ------------------------------------------------------------------ bounds
MaxRows == 2
MaxTotalLines == 3
MaxBatchSize == 2
MaxIndexRows == 2
MaxStoreOps == 3
MaxItems == 2
MaxRecords == 2
MaxTokens == 4
MaxWindow == 5
MaxRuns == 2
MaxMessages == 3

\* ------------------------------------------------------- program constants
\* commoncrawl.py: stop=stop_after_attempt(5)
StopAfterAttempt == 5
\* processed_url_tracker.py and storage.py: stop=stop_after_attempt(3)
StorageStopAfterAttempt == 3
\* worker.py: channel.basic_qos(prefetch_count=1)
prefetch_count == 1
\* tokenizer_test.py: the ids of the mocked tokenizer
pad_token_id == 0
cls_token_id == 101
sep_token_id == 102

VARIABLES
    pc,          \* position of process_index
    nRows,       \* number of rows the index yields
    rowIdx,      \* rows taken from the index so far
    linesLeft,   \* lines of the current payload not yet examined
    lineBudget,  \* payload lines the remaining index rows may still carry
    batch_size,  \* process_index's batch_size argument
    found_urls,  \* the in-flight batch
    flushSite,   \* which publish_batch call is running: "line" (125) or "end" (137)
    markIdx,     \* position of _track_processed_urls in the batch
    marked,      \* the marker store: keys that exist
    exc,         \* the exception that left process_index ("none" while running)
    attempt,     \* HTTP requests issued by the current download_and_unzip call
    dlLog,       \* what each request of the current/last call met
    dlResult,    \* how the last download_and_unzip call ended
    last,        \* the payload line examined last and what is_processed had to say
    pubCalls,    \* every batch handed to basic_publish: its size and outcome
    markCalls,   \* keys mark_processed was called for in this run
    pubOkKeys,   \* keys of the items of batches whose publish returned
    nAccepted,   \* documents appended to the in-flight batch so far
    fetchFails,  \* download_and_unzip calls that raised
    markFails,   \* mark_processed calls that raised
    endReached,  \* the index loop ended normally (line 136 reached)
    accDocs,     \* the documents accepted so far, in acceptance order
    pubDocs,     \* the documents of the batches basic_publish took, in publish order
    \* --- CSVIndexReader (SpecReader)
    rdScope,     \* the `with` block: "before", "inside", "after"
    rdFile,      \* self.file: "none", "open", "closed"
    rdRows,      \* the rows csv.reader will yield
    rdPos,       \* rows consumed from csv.reader
    rdResults,   \* what each next(reader) call returned or raised
    rdCloses,    \* close() calls made on the file handle
    rdExit,      \* how the block was left: "none", "normal", "abandoned", "error"
    \* --- ProcessedURLTracker and MinIOStorage (SpecStore)
    stOp,        \* the call in progress or made last: its name and arguments
    stAttempts,  \* executions of the function body under tenacity in this call
    stLog,       \* what each storage client call of this call met
    stResult,    \* "pending", or what the call returned or raised
    stMarkers,   \* keys whose marker object exists in the processed-urls bucket
    stDocs,      \* object names that exist in the document bucket
    stMarks,     \* per (url, timestamp): mark_processed calls that returned
    stKeys,      \* every (url, timestamp, key) _generate_key was applied to
    stOpsLeft,   \* calls the caller may still make
    \* --- worker.process_batch (SpecWorker)
    wPc,         \* position of process_batch: "parse", "item", "record", "ack", "returned", "raised"
    wTag,        \* method.delivery_tag of the message
    wBody,       \* what the message body is
    wN,          \* number of items `for item in batch` yields
    wItem,       \* the item being processed
    wRecs,       \* archive records the scraper has read for the current item
    wItemLog,    \* per attempted item: its records, texts yielded, documents stored, exception
    wFetches,    \* download_and_unzip calls made for this message
    wStored,     \* storage.put_object calls that returned for this message
    wAcks,       \* delivery tags passed to basic_ack
    wExc,        \* the exception that left process_batch ("none" otherwise)
    \* --- Tokenizer (SpecTokenizer)
    tkPc,        \* position: "input", "tokenized" (tokenize_with_chunks ran), "documented"
    tkText,      \* the text argument
    tkEncode,    \* self.tokenizer.encode on this text: raises, or the flat token sequence
    tkMax,       \* self.max_length
    tkStride,    \* self.stride
    tkResult,    \* what tokenize_with_chunks returned
    tkEncCalls,  \* calls of self.tokenizer.encode
    tkDoc,   \* what create_document returned or raised
    \* --- successive batcher runs (SpecRuns)
    runNo,       \* the run of the batcher that is under way (1, 2, ...)
    runPrevPublished, \* keys of the items published successfully by earlier runs
    runUnmarked, \* keys the last crash left published but not marked
    \* --- the queue and its consumers (SpecQueue)
    qBody,       \* per message: its body and the number of items it yields
    qReady,      \* messages in the queue, ready for delivery, in order
    qHeld,       \* per worker: messages delivered to it and not acknowledged
    qInbox,      \* per worker: delivered messages whose callback has not started
    qPc,         \* per worker: "idle", "item", "ack", "dead"
    qCur,        \* per worker: the message its process_batch call is about (0: none)
    qHist        \* per worker, per message taken up: items attempted, items in all, acknowledged

batcherVars == <<pc, nRows, rowIdx, linesLeft, lineBudget, batch_size, found_urls, flushSite,
          markIdx, marked, exc, attempt, dlLog, dlResult, last, pubCalls,
          markCalls, pubOkKeys, nAccepted, fetchFails, markFails, endReached,
          accDocs, pubDocs>>

readerVars == <<rdScope, rdFile, rdRows, rdPos, rdResults, rdCloses, rdExit>>

storeVars == <<stOp, stAttempts, stLog, stResult, stMarkers, stDocs, stMarks, stKeys,
               stOpsLeft>>

workerVars == <<wPc, wTag, wBody, wN, wItem, wRecs, wItemLog, wFetches, wStored, wAcks,
                wExc>>

tokenizerVars == <<tkPc, tkText, tkEncode, tkMax, tkStride, tkResult, tkEncCalls, tkDoc>>

runsVars == <<runNo, runPrevPublished, runUnmarked>>

queueVars == <<qBody, qReady, qHeld, qInbox, qPc, qCur, qHist>>

vars == <<batcherVars, readerVars, storeVars, workerVars, tokenizerVars, runsVars, queueVars>>

notBatcherVars == <<readerVars, storeVars, workerVars, tokenizerVars, runsVars, queueVars>>
notReaderVars == <<batcherVars, storeVars, workerVars, tokenizerVars, runsVars, queueVars>>
notStoreVars == <<batcherVars, readerVars, workerVars, tokenizerVars, runsVars, queueVars>>
notTokenizerVars == <<batcherVars, readerVars, storeVars, workerVars, runsVars, queueVars>>
notWorkerVars == <<batcherVars, readerVars, storeVars, tokenizerVars, runsVars, queueVars>>
notQueueVars == <<batcherVars, readerVars, storeVars, workerVars, tokenizerVars, runsVars>>
notRunsVars == <<batcherVars, readerVars, storeVars, workerVars, tokenizerVars, queueVars>>

\* ------------------------------------------------------------ input space
Urls == {"com,a)/", "com,b)/"}
Timestamps == {"2024"}
Languages == {<<"deu">>, <<"deu", "eng">>}
Statuses == {"200", "301"}

\* A parsed metadata object: "url" is always there, "languages" and "status" may be absent.
Metadatas ==
    [url : {"http"}]
    \cup [url : {"http"}, languages : Languages]
    \cup [url : {"http"}, status : Statuses]
    \cup [url : {"http"}, languages : Languages, status : Statuses]

\* The third field onwards of a payload line: not JSON, JSON that is no object, or an object.
Tails ==
    {[json |-> "invalid"], [json |-> "number"]}
    \cup [json : {"object"}, value : Metadatas]

BlankLine == [blank |-> TRUE]
Lines == {BlankLine} \cup [blank : {FALSE}, url : Urls, timestamp : Timestamps, tail : Tails]

\* What the HTTP request and the bytes it returns can be.
Responses == {"transport_error", "http_error_status", "bad_gzip", "truncated_gzip",
              "not_utf8", "ok"}

\* What the marker store's stat_object can do under is_processed.
StatOutcomes == {"answers", "fails"}

\* ----------------------------------------------------- ProcessedURLTracker
\* Variant that hashes the url alone.
_generate_key_UrlOnly(url, timestamp) == url \o ":"

\* processed_url_tracker.py _generate_key: sha256 of "url:timestamp"; the hash is
\* taken as injective, so the key is the hashed string.
_generate_key(url, timestamp) == url \o ":" \o timestamp

\* is_processed: True when the marker exists, False on NoSuchKey, raises otherwise.
is_processed(store, url, timestamp, stat) ==
    IF stat = "fails" THEN "raise"
    ELSE IF _generate_key(url, timestamp) \in store THEN "True" ELSE "False"

\* Variant whose marker is written under the timestamp-first name.
mark_processed_OtherName(store, url, timestamp) == store \cup {timestamp \o ":" \o url}

\* mark_processed: put_object of the empty marker.
mark_processed(store, url, timestamp) == store \cup {_generate_key(url, timestamp)}

\* ------------------------------------------------------------ CCDownloader
\* What is raised inside the try block of download_and_unzip (lines 79-95):
\* session.get, raise_for_status, gzip.decompress.
RaisedInTry(resp) ==
    CASE resp = "transport_error"   -> "ConnectionError"
      [] resp = "http_error_status" -> "HTTPError"
      [] resp = "bad_gzip"          -> "BadGzipFile"
      [] resp = "truncated_gzip"    -> "EOFError"
      [] OTHER                      -> "none"

\* isinstance(e, requests.RequestException)
IsRequestException(e) == e \in {"RequestException", "ConnectionError", "HTTPError"}

DownloadFailed == "DownloadError: Download failed"
DecompressionFailed == "DownloadError: Decompression failed"

\* The exception class of an outcome: both messages belong to class DownloadError.
ErrorKind(r) == IF r \in {DownloadFailed, DecompressionFailed} THEN "DownloadError" ELSE r

\* Variant without the `except requests.RequestException` handler.
DownloadBody_Unwrapped(resp) ==
    LET e == RaisedInTry(resp) IN
    IF e = "none" THEN "bytes"
    ELSE IF e = "BadGzipFile" THEN DecompressionFailed
    ELSE e

\* Variant whose BadGzipFile handler raises the download message.
DownloadBody_GzipAsDownload(resp) ==
    LET e == RaisedInTry(resp) IN
    IF e = "none" THEN "bytes"
    ELSE IF e = "BadGzipFile" THEN DownloadFailed
    ELSE IF IsRequestException(e) THEN DownloadFailed
    ELSE e

\* The body of download_and_unzip for one request: what it returns or raises
\* after its own handlers (lines 96-99 and 101-106).
DownloadBody(resp) ==
    LET e == RaisedInTry(resp) IN
    IF e = "none" THEN "bytes"
    ELSE IF e = "BadGzipFile" THEN DecompressionFailed
    ELSE IF IsRequestException(e) THEN DownloadFailed
    ELSE e

\* retry=retry_if_exception_type((requests.RequestException, requests.ConnectionError))
RetryIf(raised) == IsRequestException(raised)

\* tenacity around the body: "retry", or how the call ends after `n` requests.
TenacityOutcome(raised, n) ==
    IF raised = "bytes" THEN "bytes"
    ELSE IF ~RetryIf(raised) THEN raised
    ELSE IF n >= StopAfterAttempt THEN "RetryError"
    ELSE "retry"

\* ----------------------------------------------------------------- batcher
\* _download_chunk's handlers: `except (ValueError, DecodeError)` names DecodeError,
\* which batcher.py neither defines nor imports, so matching any exception raises
\* NameError before `except Exception` is tried.
DownloadChunkExcept(raised) == "NameError"

\* json.loads("".join(values[2:]))
json_loads(tail) == IF tail.json = "invalid" THEN "JSONDecodeError" ELSE "value"

\* "eng" in metadata["languages"]
HasEng(languages) == \E i \in 1..Len(languages) : languages[i] = "eng"

\* Variant of _track_url_safely that fails open: a raising check counts as "not processed".
_track_url_safely_FailOpen(store, url, timestamp, stat) ==
    is_processed(store, url, timestamp, stat) = "True"

\* _track_url_safely: is_processed's answer, True when it raises.
_track_url_safely(store, url, timestamp, stat) ==
    LET r == is_processed(store, url, timestamp, stat)
    IN IF r = "raise" THEN TRUE ELSE r = "True"

\* Variant of LineOutcome without the status filter of lines 110-112.
LineOutcome_NoStatusCheck(line, store, stat) ==
    IF line.blank THEN "blank"
    ELSE IF json_loads(line.tail) = "JSONDecodeError" THEN "JSONDecodeError"
    ELSE IF line.tail.json # "object" THEN "TypeError"
    ELSE LET metadata == line.tail.value IN
         IF "languages" \notin DOMAIN metadata \/ ~HasEng(metadata.languages)
            THEN "non_english"
         ELSE IF _track_url_safely(store, line.url, line.timestamp, stat) THEN "duplicate"
         ELSE "accepted"

\* Lines 95-122 for one line: how the line leaves the filter.
LineOutcome(line, store, stat) ==
    IF line.blank THEN "blank"
    ELSE IF json_loads(line.tail) = "JSONDecodeError" THEN "JSONDecodeError"
    ELSE IF line.tail.json # "object" THEN "TypeError"   \* "languages" not in <number>
    ELSE LET metadata == line.tail.value IN
         IF "languages" \notin DOMAIN metadata \/ ~HasEng(metadata.languages)
            THEN "non_english"
         ELSE IF "status" \notin DOMAIN metadata THEN "KeyError"
         ELSE IF metadata.status # "200" THEN "bad_status"
         ELSE IF _track_url_safely(store, line.url, line.timestamp, stat) THEN "duplicate"
         ELSE "accepted"

\* The document appended at lines 118-122.
Doc(line) == [surt_url |-> line.url, timestamp |-> line.timestamp,
              metadata |-> line.tail.value]

\* Variant of LineExcept in which a JSON decode error leaves process_index.
LineExcept_JsonPropagates(raised) ==
    IF raised = "JSONDecodeError" THEN "propagate" ELSE "continue"

\* Lines 128-134: what the handlers of the line's try block do with an exception
\* raised inside it, publish_batch's included.
LineExcept(raised) == "continue"

\* Variant of ShouldFlush that flushes one document late.
ShouldFlush_Strict(batch, size) == Len(batch) > size

\* Line 124
ShouldFlush(batch, size) == Len(batch) >= size

\* Variant in which the message holds the batch in reverse order.
PublishedBody_Reversed(batch) == [i \in 1..Len(batch) |-> batch[Len(batch) + 1 - i]]

\* Lines 54-59: the message body is json.dumps(batch), the documents of the batch
\* in list order, each a JSON object of its surt_url, timestamp and metadata.
PublishedBody(batch) == batch

\* Variant of _publish_to_queue that logs the failure and returns.
_publish_to_queue_Swallows(ok) == "returned"

\* _publish_to_queue: returns, or raises PublishError when basic_publish raises.
_publish_to_queue(ok) == IF ok THEN "returned" ELSE "PublishError"

\* How an exception raised by publish_batch leaves the call site.
FlushExcept(site, raised) ==
    IF site = "line" THEN LineExcept(raised) ELSE "propagate"

KeysOf(batch) == {_generate_key(batch[i].surt_url, batch[i].timestamp) : i \in 1..Len(batch)}

NoLine == [line |-> BlankLine, stat |-> "answers", outcome |-> "none"]

\* The index reader while another component is under study.
ReaderOff ==
    /\ rdScope = "off"
    /\ rdFile = "none"
    /\ rdRows = <<>>
    /\ rdPos = 0
    /\ rdResults = <<>>
    /\ rdCloses = 0
    /\ rdExit = "none"

\* Everything but the batcher.
TokenizerOff ==
    /\ tkPc = "off"
    /\ tkText = "none"
    /\ tkEncode = [raises |-> TRUE]
    /\ tkMax = 0
    /\ tkStride = 0
    /\ tkResult = [status |-> "none"]
    /\ tkEncCalls = 0
    /\ tkDoc = [raised |-> "none"]

RunsOff ==
    /\ runNo = 0
    /\ runPrevPublished = {}
    /\ runUnmarked = {}

QueueOff ==
    /\ qBody = <<>>
    /\ qReady = <<>>
    /\ qHeld = <<>>
    /\ qInbox = <<>>
    /\ qPc = <<>>
    /\ qCur = <<>>
    /\ qHist = <<>>

WorkerOff ==
    /\ wPc = "off"
    /\ wTag = "none"
    /\ wBody = "none"
    /\ wN = 0
    /\ wItem = [kind |-> "none"]
    /\ wRecs = 0
    /\ wItemLog = <<>>
    /\ wFetches = 0
    /\ wStored = 0
    /\ wAcks = <<>>
    /\ wExc = "none"

StoreOff ==
    /\ stOp = [name |-> "off"]
    /\ stAttempts = 0
    /\ stLog = <<>>
    /\ stResult = "off"
    /\ stMarkers = {}
    /\ stDocs = {}
    /\ stMarks = <<>>
    /\ stKeys = {}
    /\ stOpsLeft = 0

\* process_index is called: nothing fetched, nothing in flight; the marker store
\* holds what earlier runs left in it.
BatcherStart ==
    /\ pc = "next_row"
    /\ nRows \in 1..MaxRows
    /\ rowIdx = 0
    /\ linesLeft = 0
    /\ lineBudget = MaxTotalLines
    /\ batch_size \in 1..MaxBatchSize
    /\ found_urls = <<>>
    /\ flushSite = "none"
    /\ markIdx = 0
    /\ marked \in SUBSET {_generate_key(u, t) : u \in Urls, t \in Timestamps}
    /\ exc = "none"
    /\ attempt = 0
    /\ dlLog = <<>>
    /\ dlResult = "none"
    /\ last = NoLine
    /\ pubCalls = <<>>
    /\ markCalls = {}
    /\ pubOkKeys = {}
    /\ nAccepted = 0
    /\ fetchFails = 0
    /\ markFails = 0
    /\ endReached = FALSE
    /\ accDocs = <<>>
    /\ pubDocs = <<>>

Init ==
    /\ QueueOff
    /\ BatcherStart
    /\ RunsOff
    /\ TokenizerOff
    /\ ReaderOff
    /\ StoreOff
    /\ WorkerOff

\* `for cdx_chunk in index` (89) and, once the index is exhausted, lines 136-137.
NextRow ==
    /\ pc = "next_row"
    /\ IF rowIdx < nRows
          THEN /\ rowIdx' = rowIdx + 1
               /\ pc' = "fetch"
               /\ attempt' = 0
               /\ dlLog' = <<>>
               /\ dlResult' = "pending"
               /\ UNCHANGED <<flushSite, endReached>>
          ELSE /\ endReached' = TRUE
               /\ IF found_urls # <<>>
                     THEN pc' = "publish" /\ flushSite' = "end"
                     ELSE pc' = "done" /\ flushSite' = flushSite
               /\ UNCHANGED <<rowIdx, attempt, dlLog, dlResult>>
    /\ UNCHANGED <<nRows, linesLeft, lineBudget, batch_size, found_urls, markIdx, marked, exc,
                   last, pubCalls, markCalls, pubOkKeys, nAccepted, fetchFails,
                   markFails, accDocs, pubDocs>>
    /\ UNCHANGED notBatcherVars

\* One HTTP request of download_and_unzip under tenacity, and, when the call ends,
\* _download_chunk's handling of its result (lines 140-150) and line 91.
Fetch ==
    /\ pc = "fetch"
    /\ \E resp \in Responses, n \in 0..lineBudget :
        LET out == TenacityOutcome(DownloadBody(resp), attempt + 1) IN
        /\ attempt' = attempt + 1
        /\ dlLog' = Append(dlLog, resp)
        /\ IF out = "retry"
              THEN /\ n = 0
                   /\ UNCHANGED <<pc, dlResult, exc, linesLeft, lineBudget, fetchFails>>
           ELSE IF out # "bytes"
              THEN /\ n = 0
                   /\ dlResult' = out
                   /\ fetchFails' = fetchFails + 1
                   /\ exc' = DownloadChunkExcept(out)
                   /\ pc' = IF exc' = "none" THEN "next_row" ELSE "raised"
                   /\ UNCHANGED <<linesLeft, lineBudget>>
           ELSE IF resp = "not_utf8"
              THEN /\ n = 0   \* .decode("utf-8") raises UnicodeDecodeError
                   /\ dlResult' = "bytes"
                   /\ fetchFails' = fetchFails + 1
                   /\ exc' = DownloadChunkExcept("ValueError")
                   /\ pc' = IF exc' = "none" THEN "next_row" ELSE "raised"
                   /\ UNCHANGED <<linesLeft, lineBudget>>
           ELSE /\ dlResult' = "bytes"
                /\ linesLeft' = n
                /\ lineBudget' = lineBudget - n
                /\ pc' = IF n = 0 THEN "next_row" ELSE "line"   \* `if not data: continue`
                /\ UNCHANGED <<exc, fetchFails>>
    /\ UNCHANGED <<nRows, rowIdx, batch_size, found_urls, flushSite, markIdx, marked,
                   last, pubCalls, markCalls, pubOkKeys, nAccepted, markFails,
                   endReached, accDocs, pubDocs>>
    /\ UNCHANGED notBatcherVars

\* Where the line loop goes after a line: the next line, or the next index row.
AfterLine(left) == IF left > 0 THEN "line" ELSE "next_row"

\* Lines 94-124 for one payload line.
ProcessLine ==
    /\ pc = "line"
    /\ \E line \in Lines, stat \in StatOutcomes :
        LET outcome == LineOutcome(line, marked, stat) IN
        /\ stat = "fails" => outcome \in {"duplicate", "accepted"}  \* the store is asked only then
        /\ last' = [line |-> line, stat |-> stat, outcome |-> outcome]
        /\ linesLeft' = linesLeft - 1
        /\ IF outcome = "accepted"
              THEN /\ found_urls' = Append(found_urls, Doc(line))
                   /\ nAccepted' = nAccepted + 1
                   /\ accDocs' = Append(accDocs, Doc(line))
                   /\ IF ShouldFlush(found_urls', batch_size)
                         THEN pc' = "publish" /\ flushSite' = "line"
                         ELSE pc' = AfterLine(linesLeft') /\ flushSite' = flushSite
                   /\ exc' = exc
           ELSE IF outcome \in {"JSONDecodeError", "TypeError", "KeyError"}
                   /\ LineExcept(outcome) # "continue"
              THEN /\ pc' = "raised"
                   /\ exc' = outcome
                   /\ UNCHANGED <<found_urls, nAccepted, accDocs, flushSite>>
           ELSE /\ pc' = AfterLine(linesLeft')
                /\ UNCHANGED <<found_urls, nAccepted, accDocs, flushSite, exc>>
    /\ UNCHANGED <<nRows, rowIdx, lineBudget, batch_size, markIdx, marked, attempt, dlLog,
                   dlResult, pubCalls, markCalls, pubOkKeys, fetchFails, markFails,
                   endReached, pubDocs>>
    /\ UNCHANGED notBatcherVars

\* An exception raised inside publish_batch leaves it; the call site decides.
Raise(site, raised) ==
    IF FlushExcept(site, raised) = "continue"
       THEN pc' = AfterLine(linesLeft) /\ exc' = exc
       ELSE pc' = "raised" /\ exc' = raised

\* publish_batch up to and including _publish_to_queue (lines 75-80).
Publish ==
    /\ pc = "publish"
    /\ \E ok \in BOOLEAN :
        LET r == _publish_to_queue(ok) IN
        /\ pubCalls' = Append(pubCalls, [size |-> Len(found_urls), ok |-> ok])
        /\ pubOkKeys' = IF ok THEN pubOkKeys \cup KeysOf(found_urls) ELSE pubOkKeys
        /\ pubDocs' = IF ok THEN pubDocs \o PublishedBody(found_urls) ELSE pubDocs
        /\ IF r = "returned"
              THEN /\ pc' = "mark"
                   /\ markIdx' = 1
                   /\ exc' = exc
              ELSE /\ Raise(flushSite, r)
                   /\ UNCHANGED markIdx
    /\ UNCHANGED <<nRows, rowIdx, linesLeft, lineBudget, batch_size, found_urls, flushSite, marked,
                   attempt, dlLog, dlResult, last, markCalls, nAccepted, fetchFails,
                   markFails, endReached, accDocs>>
    /\ UNCHANGED notBatcherVars

\* One mark_processed call of _track_processed_urls (66-67); after the last one,
\* publish_batch returns and the call site goes on (126, or the end of the run).
Mark ==
    /\ pc = "mark"
    /\ \E ok \in BOOLEAN :
        LET item == found_urls[markIdx] IN
        /\ markCalls' = markCalls \cup {_generate_key(item.surt_url, item.timestamp)}
        /\ IF ok
              THEN /\ marked' = mark_processed(marked, item.surt_url, item.timestamp)
                   /\ markFails' = markFails
                   /\ exc' = exc
                   /\ IF markIdx < Len(found_urls)
                         THEN /\ markIdx' = markIdx + 1
                              /\ UNCHANGED <<pc, found_urls>>
                      ELSE IF flushSite = "line"
                         THEN /\ found_urls' = <<>>
                              /\ pc' = AfterLine(linesLeft)
                              /\ markIdx' = 0
                      ELSE /\ pc' = "done"
                           /\ markIdx' = 0
                           /\ UNCHANGED found_urls
              ELSE /\ markFails' = markFails + 1
                   /\ Raise(flushSite, "StorageError")
                   /\ UNCHANGED <<marked, markIdx, found_urls>>
    /\ UNCHANGED <<nRows, rowIdx, linesLeft, lineBudget, batch_size, flushSite, attempt, dlLog,
                   dlResult, last, pubCalls, pubOkKeys, nAccepted, fetchFails,
                   endReached, accDocs, pubDocs>>
    /\ UNCHANGED notBatcherVars

Next == NextRow \/ Fetch \/ ProcessLine \/ Publish \/ Mark

Spec == Init /\ [][Next]_vars

\* ------------------------------------------------------- successive runs
\* Variant in which the markers of a published batch are all in the store once the
\* publish has returned.
StoreAfterCrash_AllMarked(store, batch, idx) == store \cup KeysOf(batch)

\* The marker store when the process dies with mark_processed not yet called for
\* the items from position idx on: _track_processed_urls (lines 64-67) is its only
\* writer, so it holds what the calls made so far have put there.
StoreAfterCrash(store, batch, idx) == store

InitRuns ==
    /\ QueueOff
    /\ BatcherStart
    /\ ReaderOff
    /\ StoreOff
    /\ WorkerOff
    /\ TokenizerOff
    /\ runNo = 1
    /\ runPrevPublished = {}
    /\ runUnmarked = {}

\* The process dies after _publish_to_queue returned and before
\* _track_processed_urls has marked every item of the batch.
Crash ==
    /\ pc = "mark"
    /\ runNo >= 1
    /\ pc' = "crashed"
    /\ runUnmarked' = KeysOf(SubSeq(found_urls, markIdx, Len(found_urls))) \ marked
    /\ marked' = StoreAfterCrash(marked, found_urls, markIdx)
    /\ UNCHANGED <<nRows, rowIdx, linesLeft, lineBudget, batch_size, found_urls, flushSite,
                   markIdx, exc, attempt, dlLog, dlResult, last, pubCalls, markCalls,
                   pubOkKeys, nAccepted, fetchFails, markFails, endReached,
                   accDocs, pubDocs>>
    /\ UNCHANGED <<runNo, runPrevPublished>>
    /\ UNCHANGED <<readerVars, storeVars, workerVars, tokenizerVars, queueVars>>

\* The batcher is started again on the same index, with the same batch size,
\* against the marker store as the crash left it.
Restart ==
    /\ pc = "crashed"
    /\ runNo < MaxRuns
    /\ runNo' = runNo + 1
    /\ runPrevPublished' = runPrevPublished \cup pubOkKeys
    /\ pc' = "next_row"
    /\ rowIdx' = 0
    /\ linesLeft' = 0
    /\ found_urls' = <<>>
    /\ flushSite' = "none"
    /\ markIdx' = 0
    /\ exc' = "none"
    /\ attempt' = 0
    /\ dlLog' = <<>>
    /\ dlResult' = "none"
    /\ last' = NoLine
    /\ pubCalls' = <<>>
    /\ markCalls' = {}
    /\ pubOkKeys' = {}
    /\ nAccepted' = 0
    /\ fetchFails' = 0
    /\ markFails' = 0
    /\ endReached' = FALSE
    /\ accDocs' = <<>>
    /\ pubDocs' = <<>>
    /\ UNCHANGED <<nRows, batch_size, marked, lineBudget, runUnmarked>>
    /\ UNCHANGED <<readerVars, storeVars, workerVars, tokenizerVars, queueVars>>

NextRuns == NextRow \/ Fetch \/ ProcessLine \/ Publish \/ Mark \/ Crash \/ Restart

SpecRuns == InitRuns /\ [][NextRuns]_vars

\* ------------------------------------------------------------ CSVIndexReader
\* The batcher while another component is under study.
BatcherOff ==
    /\ pc = "off"
    /\ nRows = 0
    /\ rowIdx = 0
    /\ linesLeft = 0
    /\ lineBudget = 0
    /\ batch_size = 1
    /\ found_urls = <<>>
    /\ flushSite = "none"
    /\ markIdx = 0
    /\ marked = {}
    /\ exc = "none"
    /\ attempt = 0
    /\ dlLog = <<>>
    /\ dlResult = "none"
    /\ last = NoLine
    /\ pubCalls = <<>>
    /\ markCalls = {}
    /\ pubOkKeys = {}
    /\ nAccepted = 0
    /\ fetchFails = 0
    /\ markFails = 0
    /\ endReached = FALSE
    /\ accDocs = <<>>
    /\ pubDocs = <<>>

\* Rows as csv.reader yields them: lists of the tab-separated fields of a line.
ValidRow == <<"url 20240722120756", "file.gz", "0", "1000", "1">>
BadOffsetRow == <<"url 20240722120756", "file.gz", "abc", "1000", "1">>
BadLengthRow == <<"url 20240722120756", "file.gz", "0", "abc", "1">>
NegativeLengthRow == <<"url 20240722120756", "file.gz", "0", "-100", "1">>
ShortRow == <<"incomplete_row", "file.gz", "0">>
IndexRows == {ValidRow, BadOffsetRow, BadLengthRow, NegativeLengthRow, ShortRow}

\* All sequences over `S` of length at most `n`.
SeqUpTo(S, n) == UNION {[1..k -> S] : k \in 0..n}

\* CSVIndexReader.__next__: next(self.reader), the row as csv.reader yields it.
ReaderNext(row) == row

\* Variant of __exit__ that closes the file only when the block ended without an exception.
ExitCloses_OnlyClean(file, how) == file # "none" /\ how # "error"

\* CSVIndexReader.__exit__: `if self.file: self.file.close()`, whatever ended the block.
ExitCloses(file, how) == file # "none"

InitReader ==
    /\ QueueOff
    /\ RunsOff
    /\ TokenizerOff
    /\ BatcherOff
    /\ StoreOff
    /\ WorkerOff
    /\ rdScope = "before"
    /\ rdFile = "none"
    /\ rdRows \in SeqUpTo(IndexRows, MaxIndexRows)
    /\ rdPos = 0
    /\ rdResults = <<>>
    /\ rdCloses = 0
    /\ rdExit = "none"

\* __enter__: open the file and wrap it in csv.reader; when open() raises, the
\* `with` statement never enters the block and __exit__ is not called.
RdEnter ==
    /\ rdScope = "before"
    /\ \E found \in BOOLEAN :
        IF found
           THEN rdFile' = "open" /\ rdScope' = "inside" /\ rdExit' = rdExit
           ELSE rdFile' = "none" /\ rdScope' = "after" /\ rdExit' = "open_failed"
    /\ UNCHANGED <<rdRows, rdPos, rdResults, rdCloses, notReaderVars>>

\* One next(reader) call inside the block.
RdNext ==
    /\ rdScope = "inside"
    /\ Len(rdResults) <= Len(rdRows)
    /\ IF rdPos < Len(rdRows)
          THEN /\ rdPos' = rdPos + 1
               /\ rdResults' = Append(rdResults, ReaderNext(rdRows[rdPos + 1]))
          ELSE /\ rdPos' = rdPos
               /\ rdResults' = Append(rdResults, <<"StopIteration">>)
    /\ UNCHANGED <<rdScope, rdFile, rdRows, rdCloses, rdExit, notReaderVars>>

\* The block is left: at the end of the iteration, before it (the caller abandons
\* the reader), or by an exception raised inside the block. `with` calls __exit__.
RdExit ==
    /\ rdScope = "inside"
    /\ \E how \in {"normal", "abandoned", "error"} :
        /\ how = "normal" => Len(rdResults) > Len(rdRows)
        /\ how = "abandoned" => Len(rdResults) <= Len(rdRows)
        /\ rdExit' = how
        /\ IF ExitCloses(rdFile, how)
              THEN rdFile' = "closed" /\ rdCloses' = rdCloses + 1
              ELSE UNCHANGED <<rdFile, rdCloses>>
    /\ rdScope' = "after"
    /\ UNCHANGED <<rdRows, rdPos, rdResults, notReaderVars>>

NextReader == RdEnter \/ RdNext \/ RdExit

SpecReader == InitReader /\ [][NextReader]_vars

\* ------------------------------------------ marker store and document store
StoreUrls == {"", "a", "a:b"}
StoreTimestamps == {"", "c", "b:c"}
DocKeys == {"d1.json", "d2.json"}

\* The calls a caller can make on ProcessedURLTracker and on MinIOStorage.
StoreOps ==
    [name : {"is_processed", "mark_processed"}, url : StoreUrls, timestamp : StoreTimestamps]
    \cup [name : {"put_object", "key_exists"}, key : DocKeys]

TrackerOps == {"is_processed", "mark_processed"}

\* Variant of the tracker bodies that checks its arguments first.
TrackerBody_Validates(name, store, url, timestamp, out) ==
    IF url = "" \/ timestamp = ""
       THEN [result |-> "ValueError", called |-> FALSE, store |-> store]
    ELSE IF name = "is_processed"
       THEN [result |-> LET r == is_processed(store, url, timestamp, out)
                        IN IF r = "raise" THEN "StorageError" ELSE r,
             called |-> TRUE, store |-> store]
    ELSE IF out = "fails"
       THEN [result |-> "StorageError", called |-> TRUE, store |-> store]
    ELSE [result |-> "None", called |-> TRUE,
          store |-> mark_processed(store, url, timestamp)]

\* One execution of the body of is_processed (lines 59-69) or of mark_processed
\* (lines 78-86): the key is derived from the arguments as given and the storage
\* client is called; a MinioException other than NoSuchKey becomes StorageError.
TrackerBody(name, store, url, timestamp, out) ==
    IF name = "is_processed"
       THEN [result |-> LET r == is_processed(store, url, timestamp, out)
                        IN IF r = "raise" THEN "StorageError" ELSE r,
             called |-> TRUE, store |-> store]
    ELSE IF out = "fails"
       THEN [result |-> "StorageError", called |-> TRUE, store |-> store]
    ELSE [result |-> "None", called |-> TRUE,
          store |-> mark_processed(store, url, timestamp)]

\* One execution of the body of MinIOStorage.put_object (line 36) or key_exists
\* (lines 49-56): a MinioException other than NoSuchKey leaves the body as it is.
StorageBody(name, docs, key, out) ==
    IF out = "fails"
       THEN [result |-> "MinioException", docs |-> docs]
    ELSE IF name = "put_object"
       THEN [result |-> "None", docs |-> docs \cup {key}]
    ELSE [result |-> IF key \in docs THEN "True" ELSE "False", docs |-> docs]

\* retry=retry_if_exception_type(...) of each decorated function.
StoreRetryIf(name) ==
    IF name = "mark_processed" THEN {"StorageError"} ELSE {"MinioException"}

\* What tenacity does when the attempts are used up: retry_error_callback
\* (raise_storage_error) where one is given, RetryError otherwise.
StoreExhausted(name) ==
    IF name \in {"put_object", "key_exists"} THEN "StorageError" ELSE "RetryError"

\* tenacity around a body: "retry", or how the call ends after `n` executions.
StoreTenacity(name, result, n) ==
    IF result \notin StoreRetryIf(name) THEN result
    ELSE IF n >= StorageStopAfterAttempt THEN StoreExhausted(name)
    ELSE "retry"

InitStore ==
    /\ QueueOff
    /\ RunsOff
    /\ TokenizerOff
    /\ BatcherOff
    /\ ReaderOff
    /\ WorkerOff
    /\ stOp = [name |-> "none"]
    /\ stAttempts = 0
    /\ stLog = <<>>
    /\ stResult = "none"
    /\ stMarkers = {}
    /\ stDocs = {}
    /\ stMarks = [id \in StoreUrls \X StoreTimestamps |-> 0]
    /\ stKeys = {}
    /\ stOpsLeft = MaxStoreOps

\* The caller makes its next call.
StBegin ==
    /\ stResult # "pending"
    /\ stOpsLeft > 0
    /\ \E op \in StoreOps : stOp' = op
    /\ stOpsLeft' = stOpsLeft - 1
    /\ stAttempts' = 0
    /\ stLog' = <<>>
    /\ stResult' = "pending"
    /\ UNCHANGED <<stMarkers, stDocs, stMarks, stKeys, notStoreVars>>

\* One execution of a tracker function's body and tenacity's decision about it.
TrackerAttempt ==
    /\ stResult = "pending"
    /\ stOp.name \in TrackerOps
    /\ \E out \in StatOutcomes :
        LET b == TrackerBody(stOp.name, stMarkers, stOp.url, stOp.timestamp, out)
            t == StoreTenacity(stOp.name, b.result, stAttempts + 1)
        IN
        /\ stAttempts' = stAttempts + 1
        /\ stLog' = IF b.called THEN Append(stLog, out) ELSE stLog
        /\ stKeys' = IF b.called
                        THEN stKeys \cup {<<stOp.url, stOp.timestamp,
                                            _generate_key(stOp.url, stOp.timestamp)>>}
                        ELSE stKeys
        /\ stMarkers' = b.store
        /\ stResult' = IF t = "retry" THEN "pending" ELSE t
        /\ stMarks' = IF stOp.name = "mark_processed" /\ t = "None"
                         THEN [stMarks EXCEPT ![<<stOp.url, stOp.timestamp>>] = @ + 1]
                         ELSE stMarks
    /\ UNCHANGED <<stOp, stDocs, stOpsLeft, notStoreVars>>

\* One execution of a MinIOStorage function's body and tenacity's decision about it.
StorageAttempt ==
    /\ stResult = "pending"
    /\ stOp.name \notin TrackerOps
    /\ \E out \in StatOutcomes :
        LET b == StorageBody(stOp.name, stDocs, stOp.key, out)
            t == StoreTenacity(stOp.name, b.result, stAttempts + 1)
        IN
        /\ stAttempts' = stAttempts + 1
        /\ stLog' = Append(stLog, out)
        /\ stDocs' = b.docs
        /\ stResult' = IF t = "retry" THEN "pending" ELSE t
    /\ UNCHANGED <<stOp, stMarkers, stMarks, stKeys, stOpsLeft, notStoreVars>>

NextStore == StBegin \/ TrackerAttempt \/ StorageAttempt

SpecStore == InitStore /\ [][NextStore]_vars

\* ---------------------------------------------------------------- Tokenizer
\* Token ids the encoder may produce; the pad id is one of them.
TokenIds == {pad_token_id, 1, 2}

\* "" and "   " are the texts for which `not text or not text.strip()` holds.
Texts == {"", "   ", "text"}

\* What self.tokenizer.encode(text, add_special_tokens=False) does.
Encodings ==
    {[raises |-> TRUE]} \cup [raises : {FALSE}, tokens : SeqUpTo(TokenIds, MaxTokens)]

\* The (max_length, stride) pairs with 0 < stride < max_length.
Windows == {w \in (2..MaxWindow) \X (1..MaxWindow) : w[2] < w[1]}

\* Python's s[i:j] for 0 <= i, on a 1-based sequence.
Slice(s, i, j) ==
    LET hi == IF j < Len(s) THEN j ELSE Len(s)
        lo == IF i < 0 THEN 0 ELSE i
    IN IF hi <= lo THEN <<>> ELSE SubSeq(s, lo + 1, hi)

\* [x] * n
Repeat(x, n) == [i \in 1..n |-> x]

RECURSIVE Range(_, _, _)
\* list(range(i, n, step)) for step > 0
Range(i, n, step) == IF i >= n THEN <<>> ELSE <<i>> \o Range(i + step, n, step)

\* Variant that returns the tokens as they are, with a mask of ones.
pad_sequence_NoPadding(tokens, max_length) ==
    [raised |-> "none", input_ids |-> tokens, attention_mask |-> Repeat(1, Len(tokens))]

\* Variant whose mask is 1 over the positions of the given tokens.
pad_sequence_MaskByLength(tokens, max_length) ==
    LET padded == IF max_length - Len(tokens) > 0
                     THEN tokens \o Repeat(pad_token_id, max_length - Len(tokens))
                     ELSE Slice(tokens, 0, max_length)
    IN [raised |-> "none", input_ids |-> padded,
        attention_mask |-> [i \in 1..Len(padded) |-> IF i <= Len(tokens) THEN 1 ELSE 0]]

\* pad_sequence (lines 55-89): pad with the pad id up to max_length, or cut to
\* max_length; the mask is 1 where the id is not the pad id; every exception leaves
\* as TokenizationError.
pad_sequence(tokens, max_length) ==
    IF tokens = <<>> THEN [raised |-> "TokenizationError: Failed to pad sequence"]
    ELSE LET padding_needed == max_length - Len(tokens)
             padded_tokens == IF padding_needed > 0
                                 THEN tokens \o Repeat(pad_token_id, padding_needed)
                                 ELSE Slice(tokens, 0, max_length)
             attention_mask == [i \in 1..Len(padded_tokens) |->
                                   IF padded_tokens[i] # pad_token_id THEN 1 ELSE 0]
         IN IF Len(padded_tokens) # max_length \/ Len(attention_mask) # max_length
               THEN [raised |-> "TokenizationError: Failed to pad sequence"]
               ELSE [raised |-> "none", input_ids |-> padded_tokens,
                     attention_mask |-> attention_mask]

\* Variant that takes max_length tokens per window.
ChunkTokens_NoRoom(tokens, i, max_length) ==
    <<cls_token_id>> \o Slice(tokens, i, i + max_length) \o <<sep_token_id>>

\* Lines 106-111: the window at offset i, wrapped in cls and sep.
ChunkTokens(tokens, i, max_length) ==
    <<cls_token_id>> \o Slice(tokens, i, i + max_length - 2) \o <<sep_token_id>>

EmptyTextError == "Empty or whitespace-only text"
NoChunksError == "No chunks created"

\* Variant without the check of the text.
tokenize_with_chunks_NoTextCheck(text, enc, max_length, stride) ==
    IF enc.raises
       THEN [status |-> "failed", error |-> "EncoderError", encoded |-> 1]
    ELSE IF enc.tokens = <<>>
       THEN [status |-> "failed", error |-> NoChunksError, encoded |-> 1]
    ELSE [status |-> "success", encoded |-> 1,
          chunks |-> [k \in 1..Len(Range(0, Len(enc.tokens), max_length - stride)) |->
              LET p == pad_sequence(ChunkTokens(enc.tokens,
                           Range(0, Len(enc.tokens), max_length - stride)[k], max_length),
                           max_length)
              IN [input_ids |-> p.input_ids, attention_mask |-> p.attention_mask,
                  chunk_index |-> k - 1, original_length |-> Len(enc.tokens)]]]

\* Variant without the check for an empty list of chunks.
tokenize_with_chunks_NoChunkCheck(text, enc, max_length, stride) ==
    IF text \in {"", "   "}
       THEN [status |-> "failed", error |-> EmptyTextError, encoded |-> 0]
    ELSE IF enc.raises
       THEN [status |-> "failed", error |-> "EncoderError", encoded |-> 1]
    ELSE [status |-> "success", encoded |-> 1,
          chunks |-> [k \in 1..Len(Range(0, Len(enc.tokens), max_length - stride)) |->
              LET p == pad_sequence(ChunkTokens(enc.tokens,
                           Range(0, Len(enc.tokens), max_length - stride)[k], max_length),
                           max_length)
              IN [input_ids |-> p.input_ids, attention_mask |-> p.attention_mask,
                  chunk_index |-> k - 1, original_length |-> Len(enc.tokens)]]]

\* tokenize_with_chunks (lines 91-139). `encoded` counts the calls of
\* self.tokenizer.encode; an exception inside the try becomes a failed result that
\* carries str(e).
tokenize_with_chunks(text, enc, max_length, stride) ==
    IF text \in {"", "   "}
       THEN [status |-> "failed", error |-> EmptyTextError, encoded |-> 0]
    ELSE IF enc.raises
       THEN [status |-> "failed", error |-> "EncoderError", encoded |-> 1]
    ELSE LET tokens == enc.tokens
             offsets == Range(0, Len(tokens), max_length - stride)
             padded == [k \in 1..Len(offsets) |->
                           pad_sequence(ChunkTokens(tokens, offsets[k], max_length),
                                        max_length)]
         IN IF \E k \in 1..Len(offsets) : padded[k].raised # "none"
               THEN [status |-> "failed",
                     error |-> (CHOOSE e \in {padded[k].raised : k \in 1..Len(offsets)} :
                                    e # "none"),
                     encoded |-> 1]
            ELSE IF offsets = <<>>
               THEN [status |-> "failed", error |-> NoChunksError, encoded |-> 1]
            ELSE [status |-> "success", encoded |-> 1,
                  chunks |-> [k \in 1..Len(offsets) |->
                                 [input_ids |-> padded[k].input_ids,
                                  attention_mask |-> padded[k].attention_mask,
                                  chunk_index |-> k - 1,
                                  original_length |-> Len(tokens)]]]

\* Variant that reports the length of the first chunk as the original length.
create_document_ChunkLength(r, metadata, max_length, stride) ==
    IF r.status # "success"
       THEN [raised |-> "StorageError: Tokenization failed: " \o r.error]
       ELSE [raised |-> "none",
             chunks |-> [k \in 1..Len(r.chunks) |->
                            [input_ids |-> r.chunks[k].input_ids,
                             attention_mask |-> r.chunks[k].attention_mask,
                             chunk_index |-> r.chunks[k].chunk_index]],
             total_chunks |-> Len(r.chunks),
             metadata |-> [timestamp |-> metadata.timestamp, url |-> metadata.url,
                           stride |-> stride, max_length |-> max_length,
                           original_length |-> Len(r.chunks[1].input_ids)]]

\* create_document (lines 141-179) on a tokenization result; the base64 text of an
\* int32 array is taken as the array. chunks[0] of an empty list is an IndexError,
\* which lines 177-179 turn into StorageError.
create_document(r, metadata, max_length, stride) ==
    IF r.status # "success"
       THEN [raised |-> "StorageError: Tokenization failed: " \o r.error]
    ELSE IF r.chunks = <<>>
       THEN [raised |-> "StorageError: Failed to store document"]
       ELSE [raised |-> "none",
             chunks |-> [k \in 1..Len(r.chunks) |->
                            [input_ids |-> r.chunks[k].input_ids,
                             attention_mask |-> r.chunks[k].attention_mask,
                             chunk_index |-> r.chunks[k].chunk_index]],
             total_chunks |-> Len(r.chunks),
             metadata |-> [timestamp |-> metadata.timestamp, url |-> metadata.url,
                           stride |-> stride, max_length |-> max_length,
                           original_length |-> r.chunks[1].original_length]]

\* The metadata the worker passes along (test_create_document_success).
DocMetadata == [timestamp |-> "2024-01-14T12:00:00", url |-> "https://example.com"]

InitTokenizer ==
    /\ QueueOff
    /\ RunsOff
    /\ BatcherOff
    /\ ReaderOff
    /\ StoreOff
    /\ WorkerOff
    /\ tkPc = "input"
    /\ tkText \in Texts
    /\ tkEncode \in Encodings
    /\ \E w \in Windows : tkMax = w[1] /\ tkStride = w[2]
    /\ tkResult = [status |-> "none"]
    /\ tkEncCalls = 0
    /\ tkDoc = [raised |-> "none"]

\* A call of tokenize_with_chunks(text).
TkTokenize ==
    /\ tkPc = "input"
    /\ LET r == tokenize_with_chunks(tkText, tkEncode, tkMax, tkStride) IN
       /\ tkResult' = r
       /\ tkEncCalls' = tkEncCalls + r.encoded
    /\ tkPc' = "tokenized"
    /\ UNCHANGED <<tkText, tkEncode, tkMax, tkStride, tkDoc, notTokenizerVars>>

\* A call of create_document(text, metadata), which tokenizes the text itself.
TkCreateDocument ==
    /\ tkPc = "input"
    /\ LET r == tokenize_with_chunks(tkText, tkEncode, tkMax, tkStride) IN
       /\ tkResult' = r
       /\ tkEncCalls' = tkEncCalls + r.encoded
       /\ tkDoc' = create_document(r, DocMetadata, tkMax, tkStride)
    /\ tkPc' = "documented"
    /\ UNCHANGED <<tkText, tkEncode, tkMax, tkStride, notTokenizerVars>>

NextTokenizer == TkTokenize \/ TkCreateDocument

SpecTokenizer == InitTokenizer /\ [][NextTokenizer]_vars

\* ------------------------------------------------------ worker.process_batch
DeliveryTags == {"tag1", "tag2"}

\* Message bodies: bytes that are not UTF-8, text that is not JSON, JSON that is a
\* number/null/boolean, a JSON object (iterating it yields its keys), a JSON array.
Bodies == {"undecodable", "malformed_json", "scalar", "object", "array"}

\* What `for item in batch` can yield: a value that is no object (a string, a
\* number), an object without the metadata fields, one whose offset or length is
\* no numeral, a complete item with or without its "timestamp" field.
ItemKinds ==
    [kind : {"not_object", "missing_fields", "bad_number"}]
    \cup [kind : {"complete"}, timestamp : BOOLEAN]

\* What the scraper meets next in the archive of the current item.
RecordKinds == {"end", "iter_raises", "non_response", "extract_raises", "no_text",
                "tok_fails", "text"}

\* json.loads(body) (line 34).
WorkerJsonLoads(body) ==
    CASE body = "undecodable"    -> "UnicodeDecodeError"
      [] body = "malformed_json" -> "JSONDecodeError"
      [] OTHER                   -> "value"

\* Variant of the handler that returns without acknowledging.
ParseExcept_NoAck(raised) ==
    IF raised = "JSONDecodeError" THEN "return" ELSE raised

\* `except json.JSONDecodeError` (lines 35-40): acknowledge and return; any other
\* exception leaves process_batch.
ParseExcept(raised) ==
    IF raised = "JSONDecodeError" THEN "ack_return" ELSE raised

\* What evaluating the arguments of scraper.scrape raises (lines 47-49).
ScrapeArgs(item) ==
    CASE item.kind = "not_object"     -> "TypeError"
      [] item.kind = "missing_fields" -> "KeyError"
      [] item.kind = "bad_number"     -> "ValueError"
      [] OTHER                        -> "none"

\* What one step of the loop body raises for one archive record (scraper.py lines
\* 11-14, worker.py lines 51-60); "none" when the step completes.
RecordRaises(item, rec, put) ==
    IF rec = "iter_raises" THEN "ArchiveLoadFailed"
    ELSE IF rec = "extract_raises" THEN "ExtractError"
    ELSE IF rec \in {"end", "non_response"} THEN "none"
    ELSE IF ~item.timestamp THEN "KeyError"                  \* item["timestamp"]
    ELSE IF rec \in {"no_text", "tok_fails"}
       THEN "StorageError: Tokenization failed"              \* create_document
    ELSE IF put = "fails" THEN "StorageError"                \* storage.put_object
    ELSE "none"

\* Variant in which the scraper yields the extraction of every record.
Yields_AnyRecord(rec) == rec \notin {"end", "iter_raises", "extract_raises"}

\* scraper.py lines 12-14: only a record of type "response" has its content
\* extracted, and the extraction (a text or None) is what the generator yields.
Yields(rec) == rec \in {"no_text", "tok_fails", "text"}

\* Variant of the per-item handler that lets the exception through.
ItemExcept_Propagates(raised) == raised

\* The bare `except:` of lines 63-66 catches whatever the item raised.
ItemExcept(raised) == "caught"

\* Variant in which the loop over the batch stops after its first item.
LoopOver_AfterFirst(attempted, n) == attempted >= 1

\* `for item in batch` (line 44) is over once every item was taken.
LoopOver(attempted, n) == attempted = n

InitWorker ==
    /\ QueueOff
    /\ RunsOff
    /\ TokenizerOff
    /\ BatcherOff
    /\ ReaderOff
    /\ StoreOff
    /\ wPc = "parse"
    /\ wTag \in DeliveryTags
    /\ wBody \in Bodies
    /\ wN = 0
    /\ wItem = [kind |-> "none"]
    /\ wRecs = 0
    /\ wItemLog = <<>>
    /\ wFetches = 0
    /\ wStored = 0
    /\ wAcks = <<>>
    /\ wExc = "none"

\* Lines 30-44: parse the body and start the loop over the batch.
WParse ==
    /\ wPc = "parse"
    /\ LET r == WorkerJsonLoads(wBody) IN
       IF r # "value"
          THEN LET h == ParseExcept(r) IN
               /\ wAcks' = IF h = "ack_return" THEN Append(wAcks, wTag) ELSE wAcks
               /\ wExc' = IF h \in {"ack_return", "return"} THEN "none" ELSE h
               /\ wPc' = IF h \in {"ack_return", "return"} THEN "returned" ELSE "raised"
               /\ wN' = wN
       ELSE IF wBody = "scalar"
          THEN \* `for item in batch` on a value that is not iterable
               /\ wExc' = "TypeError"
               /\ wPc' = "raised"
               /\ UNCHANGED <<wAcks, wN>>
       ELSE \E n \in 0..MaxItems :
               /\ wN' = n
               /\ wPc' = IF LoopOver(0, n) THEN "ack" ELSE "item"
               /\ UNCHANGED <<wAcks, wExc>>
    /\ UNCHANGED <<wTag, wBody, wItem, wRecs, wItemLog, wFetches, wStored, notWorkerVars>>

\* How an item ends: logged, and the loop moves to the next item, or the exception
\* leaves process_batch when the handler does not catch it.
WItemEnds(item, rec, recs, texts, stored, raised) ==
    LET h == IF raised = "none" THEN "caught" ELSE ItemExcept(raised) IN
    /\ wItemLog' = Append(wItemLog, [item |-> item, last |-> rec, recs |-> recs,
                                     texts |-> texts, stored |-> stored,
                                     raised |-> raised])
    /\ wItem' = [kind |-> "none"]
    /\ wRecs' = 0
    /\ IF h = "caught"
          THEN /\ wPc' = IF LoopOver(Len(wItemLog) + 1, wN) THEN "ack" ELSE "item"
               /\ wExc' = wExc
          ELSE /\ wPc' = "raised"
               /\ wExc' = h

\* Lines 44-50: the next item; scraper.scrape's arguments are evaluated and the
\* generator's first step downloads the byte range.
WItem ==
    /\ wPc = "item"
    /\ \E item \in ItemKinds, fetch \in {"ok", "raises"} :
        /\ wBody = "object" => item.kind = "not_object"
        /\ item.kind # "complete" => fetch = "ok"
        /\ IF ScrapeArgs(item) # "none"
              THEN /\ WItemEnds(item, "none", <<>>, 0, 0, ScrapeArgs(item))
                   /\ UNCHANGED wFetches
           ELSE IF fetch = "raises"
              THEN /\ WItemEnds(item, "none", <<>>, 0, 0, "DownloadError")
                   /\ wFetches' = wFetches + 1
           ELSE /\ wFetches' = wFetches + 1
                /\ wItem' = [item EXCEPT !.kind = "fetched"] @@ [recs |-> <<>>, texts |-> 0, stored |-> 0]
                /\ wPc' = "record"
                /\ UNCHANGED <<wRecs, wItemLog, wExc>>
    /\ UNCHANGED <<wTag, wBody, wN, wStored, wAcks, notWorkerVars>>

\* One step of `for text in scraper.scrape(...)`: the next archive record, and for
\* a response record the loop body of lines 51-62.
WRecord ==
    /\ wPc = "record"
    /\ \E rec \in RecordKinds, put \in StatOutcomes :
        LET raised == RecordRaises(wItem, rec, put)
            yields == Yields(rec)
            recs   == IF rec = "end" THEN wItem.recs ELSE Append(wItem.recs, rec)
            texts  == wItem.texts + (IF yields THEN 1 ELSE 0)
            stored == wItem.stored + (IF yields /\ raised = "none" THEN 1 ELSE 0)
            orig   == [kind |-> "complete", timestamp |-> wItem.timestamp]
        IN
        /\ rec # "text" => put = "answers"
        /\ rec # "end" => wRecs < MaxRecords
        /\ wStored' = wStored + (stored - wItem.stored)
        /\ IF rec = "end" \/ raised # "none"
              THEN WItemEnds(orig, rec, recs, texts, stored, raised)
              ELSE /\ wItem' = [wItem EXCEPT !.recs = recs, !.texts = texts,
                                             !.stored = stored]
                   /\ wRecs' = wRecs + 1
                   /\ UNCHANGED <<wPc, wItemLog, wExc>>
    /\ UNCHANGED <<wTag, wBody, wN, wFetches, wAcks, notWorkerVars>>

\* Lines 68-69: the loop is over; acknowledge the message.
WAck ==
    /\ wPc = "ack"
    /\ wAcks' = Append(wAcks, wTag)
    /\ wPc' = "returned"
    /\ UNCHANGED <<wTag, wBody, wN, wItem, wRecs, wItemLog, wFetches, wStored, wExc,
                   notWorkerVars>>

NextWorker == WParse \/ WItem \/ WRecord \/ WAck

SpecWorker == InitWorker /\ [][NextWorker]_vars

\* ------------------------------------------------- the queue and its consumers
QWorkers == {"w1", "w2"}

\* A message: what its body is and how many items `for item in batch` yields. A
\* JSON object goes the way of an array, undecodable bytes the way of a scalar.
QBodies ==
    [body : {"malformed_json", "scalar"}, n : {0}]
    \cup [body : {"array"}, n : 0..MaxItems]

\* Variant of the broker that ignores the consumer's prefetch limit.
MayDeliver_Unlimited(held) == TRUE

\* basic_qos(prefetch_count=1) with manual acknowledgment (basic_consume without
\* auto_ack): the broker delivers to a consumer only while it holds fewer than
\* prefetch_count unacknowledged messages.
MayDeliver(held) == Cardinality(held) < prefetch_count

InitQueue ==
    /\ BatcherOff
    /\ ReaderOff
    /\ StoreOff
    /\ WorkerOff
    /\ TokenizerOff
    /\ RunsOff
    /\ \E m \in 1..MaxMessages :
          /\ qBody \in [1..m -> QBodies]
          /\ qReady = [i \in 1..m |-> i]
    /\ qHeld = [w \in QWorkers |-> {}]
    /\ qInbox = [w \in QWorkers |-> <<>>]
    /\ qPc = [w \in QWorkers |-> "idle"]
    /\ qCur = [w \in QWorkers |-> 0]
    /\ qHist = [w \in QWorkers |-> <<>>]

\* The broker delivers the message at the head of the queue to a live consumer.
QDeliver(w) ==
    /\ qReady # <<>>
    /\ qPc[w] # "dead"
    /\ MayDeliver(qHeld[w])
    /\ qHeld' = [qHeld EXCEPT ![w] = @ \cup {Head(qReady)}]
    /\ qInbox' = [qInbox EXCEPT ![w] = Append(@, Head(qReady))]
    /\ qReady' = Tail(qReady)
    /\ UNCHANGED <<qBody, qPc, qCur, qHist, notQueueVars>>

\* start_consuming invokes the callback for the next delivered message:
\* process_batch up to the start of the loop (lines 30-44). A parse failure is
\* acknowledged at once; an exception that leaves process_batch ends the worker
\* process (main, lines 91-93), and the broker requeues what it held.
QStart(w) ==
    /\ qPc[w] = "idle"
    /\ qInbox[w] # <<>>
    /\ LET m == Head(qInbox[w])
           r == WorkerJsonLoads(qBody[m].body)
           h == IF r # "value" THEN ParseExcept(r)
                ELSE IF qBody[m].body = "scalar" THEN "TypeError"
                ELSE "loop"
           entry == [msg |-> m, attempted |-> 0, n |-> qBody[m].n, acked |-> FALSE]
       IN
       /\ qInbox' = [qInbox EXCEPT ![w] = IF h \in {"ack_return", "return", "loop"}
                                             THEN Tail(@) ELSE <<>>]
       /\ IF h = "ack_return"
             THEN /\ qHeld' = [qHeld EXCEPT ![w] = @ \ {m}]
                  /\ qPc' = qPc
                  /\ qCur' = qCur
                  /\ qHist' = [qHist EXCEPT ![w] = Append(@, [entry EXCEPT !.acked = TRUE])]
                  /\ qReady' = qReady
          ELSE IF h = "return"
             THEN /\ qHist' = [qHist EXCEPT ![w] = Append(@, entry)]
                  /\ UNCHANGED <<qHeld, qPc, qCur, qReady>>
          ELSE IF h = "loop"
             THEN /\ qCur' = [qCur EXCEPT ![w] = m]
                  /\ qPc' = [qPc EXCEPT ![w] = IF LoopOver(0, qBody[m].n) THEN "ack" ELSE "item"]
                  /\ qHist' = [qHist EXCEPT ![w] = Append(@, entry)]
                  /\ UNCHANGED <<qHeld, qReady>>
          ELSE /\ qPc' = [qPc EXCEPT ![w] = "dead"]
               /\ qHist' = [qHist EXCEPT ![w] = Append(@, entry)]
               /\ qReady' = qReady \o [i \in 1..Cardinality(qHeld[w]) |->
                                CHOOSE x \in qHeld[w] :
                                    Cardinality({y \in qHeld[w] : y < x}) = i - 1]
               /\ qHeld' = [qHeld EXCEPT ![w] = {}]
               /\ qCur' = qCur
    /\ UNCHANGED <<qBody, notQueueVars>>

\* One item of the batch is attempted (lines 44-66); whatever it raises is caught.
QItem(w) ==
    /\ qPc[w] = "item"
    /\ LET k == Len(qHist[w])
           done == qHist[w][k].attempted + 1
       IN
       /\ qHist' = [qHist EXCEPT ![w][k].attempted = done]
       /\ qPc' = [qPc EXCEPT ![w] = IF LoopOver(done, qBody[qCur[w]].n) THEN "ack" ELSE "item"]
    /\ UNCHANGED <<qBody, qReady, qHeld, qInbox, qCur, notQueueVars>>

\* Lines 68-69: basic_ack for the message, and process_batch returns.
QAck(w) ==
    /\ qPc[w] = "ack"
    /\ qHeld' = [qHeld EXCEPT ![w] = @ \ {qCur[w]}]
    /\ qHist' = [qHist EXCEPT ![w][Len(qHist[w])].acked = TRUE]
    /\ qPc' = [qPc EXCEPT ![w] = "idle"]
    /\ qCur' = [qCur EXCEPT ![w] = 0]
    /\ UNCHANGED <<qBody, qReady, qInbox, notQueueVars>>

NextQueue == \E w \in QWorkers : QDeliver(w) \/ QStart(w) \/ QItem(w) \/ QAck(w)

SpecQueue == InitQueue /\ [][NextQueue]_vars

\* ---------------------------------------------------------------- claims

\* The line last examined passes the language and status filters, as the claim states them.
ClaimEnglish200(line) ==
    /\ ~line.blank
    /\ line.tail.json = "object"
    /\ "languages" \in DOMAIN line.tail.value
    /\ \E i \in DOMAIN line.tail.value.languages : line.tail.value.languages[i] = "eng"
    /\ "status" \in DOMAIN line.tail.value
    /\ line.tail.value.status = "200"

\* found_urls' is found_urls with the document of `line` appended.
ClaimAppended(line) ==
    /\ Len(found_urls') = Len(found_urls) + 1
    /\ SubSeq(found_urls', 1, Len(found_urls)) = found_urls
    /\ found_urls'[Len(found_urls')].surt_url = line.url
    /\ found_urls'[Len(found_urls')].timestamp = line.timestamp

\* process_index goes on with the next line of the payload, or with the next index row.
ClaimContinues ==
    /\ exc' = "none"
    /\ pc' = IF linesLeft > 1 THEN "line" ELSE "next_row"

\* C1: every payload line is appended to the in-flight batch if and only if its
\* metadata has a languages field containing "eng", its status is "200", and
\* is_processed(url, timestamp) reports it as not processed; any other line leaves
\* the batch as it was.
C1_FilterIff ==
    [][pc = "line" =>
        IF /\ ClaimEnglish200(last'.line)
           /\ is_processed(marked, last'.line.url, last'.line.timestamp, last'.stat) = "False"
        THEN ClaimAppended(last'.line)
        ELSE found_urls' = found_urls]_vars

C1_Witness ==
    /\ last.outcome = "accepted"
    /\ found_urls # <<>>
    /\ found_urls[Len(found_urls)].surt_url = last.line.url

\* C2: every batch handed to the queue publish call has between 1 and batch_size
\* items, whatever the outcomes of the publish and mark calls.
C2_BatchBound ==
    \A i \in DOMAIN pubCalls : 1 <= pubCalls[i].size /\ pubCalls[i].size <= batch_size

\* C3: every key mark_processed has been called for belongs to a batch whose
\* queue publish call had already returned successfully.
C3_MarkAfterPublish == markCalls \subseteq pubOkKeys

C3_Witness == markCalls # {} /\ marked # {}

\* C4: when the queue publish call fails, publish_batch calls mark_processed for
\* no item and leaves the marker store unchanged.
C4_FailedPublishMarksNothing ==
    [][(pc = "publish" /\ Len(pubCalls') > Len(pubCalls) /\ ~pubCalls'[Len(pubCalls')].ok)
        => (pc' # "mark" /\ marked' = marked /\ markCalls' = markCalls)]_vars

C4_Witness ==
    /\ pubCalls # <<>>
    /\ ~pubCalls[Len(pubCalls)].ok
    /\ pc # "publish"

\* C5: a publish failure during any flush of process_index, size-triggered or
\* end-of-index, leaves process_index as an error; traversal never goes on after it.
C5_PublishFailureSurfaces ==
    (\E i \in DOMAIN pubCalls : ~pubCalls[i].ok) => (pc = "raised" /\ exc = "PublishError")

\* C6: a fetch failure for one index row does not end the traversal: when the run
\* is over, every index row was fetched and the end-of-index flush was reached.
C6_FetchFailureIsolated ==
    (fetchFails > 0 /\ pc \in {"done", "raised"}) => (rowIdx = nRows /\ endReached)

\* C7: a payload line whose metadata tail is not JSON is skipped without raising:
\* the in-flight batch is unchanged and process_index goes on with the remaining
\* lines and rows.
C7_BadJsonSkipped ==
    [][(pc = "line" /\ ~last'.line.blank /\ last'.line.tail.json = "invalid")
        => (found_urls' = found_urls /\ ClaimContinues)]_vars

C7_Witness ==
    /\ last.outcome = "JSONDecodeError"
    /\ pc \in {"line", "next_row"}

\* C8: when is_processed raises for a line that passed the language and status
\* filters, the line is treated as already processed: it is not appended and the
\* traversal goes on.
C8_FailClosedDedup ==
    [][(pc = "line" /\ ClaimEnglish200(last'.line) /\ last'.stat = "fails")
        => (found_urls' = found_urls /\ ClaimContinues)]_vars

C8_Witness ==
    /\ last.stat = "fails"
    /\ ClaimEnglish200(last.line)
    /\ last.outcome = "duplicate"

\* The sizes the claim expects for `a` accepted documents and batch size `n`.
ClaimExpectedSizes(a, n) ==
    [i \in 1..((a + n - 1) \div n) |-> IF i * n <= a THEN n ELSE a % n]

\* C9: in a finished run in which no fetch, publish or mark call failed, with A
\* accepted documents and batch size N, the publish calls are exactly ceil(A/N):
\* all of size N except a last one of size A mod N when that is not zero.
C9_PublishCount ==
    (/\ pc = "done"
     /\ fetchFails = 0
     /\ markFails = 0
     /\ \A i \in DOMAIN pubCalls : pubCalls[i].ok)
    => [i \in DOMAIN pubCalls |-> pubCalls[i].size] = ClaimExpectedSizes(nAccepted, batch_size)

C9_Witness ==
    /\ pc = "done"
    /\ fetchFails = 0
    /\ markFails = 0
    /\ nAccepted = 3
    /\ batch_size = 2
    /\ pubCalls = <<[size |-> 2, ok |-> TRUE], [size |-> 1, ok |-> TRUE]>>

\* The number of leading requests of the call that met a transport failure.
ClaimLeadingTransport(log) ==
    Cardinality({k \in 1..Len(log) : \A j \in 1..k : log[j] = "transport_error"})

\* C10: download_and_unzip retries transport failures: when the first k < 5
\* requests fail at transport level and the next one succeeds the call returns the
\* payload after k+1 requests, and when every request fails at transport level the
\* call ends with a download error after exactly 5 requests.
C10_RetriesTransport ==
    (dlResult \notin {"none", "pending"}) =>
        LET k == ClaimLeadingTransport(dlLog) IN
        /\ k = Len(dlLog) => (Len(dlLog) = StopAfterAttempt /\ dlResult # "bytes")
        /\ (k < Len(dlLog) /\ dlLog[k + 1] = "ok") => (Len(dlLog) = k + 1 /\ dlResult = "bytes")

\* C11: a response with an error status is not retried: the call that met it issued
\* exactly one request and ended with the download error, which tenacity does not
\* retry.
C11_HttpStatusNotRetried ==
    \A i \in 1..Len(dlLog) :
        dlLog[i] = "http_error_status" =>
            /\ Len(dlLog) = 1
            /\ dlResult = DownloadFailed
            /\ ~RetryIf(dlResult)

C11_Witness == dlLog = <<"http_error_status">> /\ dlResult = DownloadFailed /\ attempt = 1

ClaimDecompressionFailures == {"bad_gzip", "truncated_gzip"}

\* The exception class a transport failure ends in.
ClaimTransportKind == ErrorKind(DownloadBody("transport_error"))

ClaimOn(name, id) ==
    stOp.name = name /\ stOp.url = id[1] /\ stOp.timestamp = id[2]

\* C15: mark_processed returns without error whenever the storage call it makes
\* last succeeds, however often the identity was marked before, and once an identity
\* was marked one or more times an is_processed call that gets an answer returns True.
C15_MarkIdempotent ==
    /\ (stOp.name = "mark_processed" /\ stResult # "pending"
            /\ stLog # <<>> /\ stLog[Len(stLog)] = "answers")
         => stResult = "None"
    /\ \A id \in DOMAIN stMarks :
         (stMarks[id] >= 1 /\ ClaimOn("is_processed", id)
             /\ stResult # "pending" /\ stLog = <<"answers">>)
           => stResult = "True"

C15_Witness ==
    \E id \in DOMAIN stMarks :
        stMarks[id] = 2 /\ ClaimOn("is_processed", id) /\ stResult = "True"

\* C16: the key is a function of (url, timestamp): two derivations from identical
\* inputs give the identical key, and two derivations whose inputs differ in the url
\* only or in the timestamp only give different keys.
C16_KeyFunction ==
    \A a \in stKeys, b \in stKeys :
        /\ (a[1] = b[1] /\ a[2] = b[2]) => a[3] = b[3]
        /\ (a[1] # b[1] /\ a[2] = b[2]) => a[3] # b[3]
        /\ (a[1] = b[1] /\ a[2] # b[2]) => a[3] # b[3]
        /\ a[3] = _generate_key(a[1], a[2])

C16_Witness ==
    \E a \in stKeys, b \in stKeys, c \in stKeys :
        /\ a[1] = b[1] /\ a[2] # b[2] /\ a[3] # b[3]
        /\ a[1] # c[1] /\ a[2] = c[2] /\ a[3] # c[3]

\* C39: two derivations of the key from (url, timestamp) pairs that differ in at
\* least one component, a ':' inside the url or the timestamp included, give
\* different keys.
C39_KeysDistinct ==
    \A a \in stKeys, b \in stKeys :
        (a[1] # b[1] \/ a[2] # b[2]) => a[3] # b[3]

ClaimEmptyArgument == stOp.name \in TrackerOps /\ (stOp.url = "" \/ stOp.timestamp = "")

C18_RetriedThenStorageError ==
    (stOp.name \in TrackerOps \cup {"put_object", "key_exists"}
        /\ stResult # "pending" /\ stLog # <<>>
        /\ \A i \in 1..Len(stLog) : stLog[i] = "fails")
      => (Len(stLog) = StorageStopAfterAttempt /\ stResult = "StorageError")

ClaimFirstFetchRaises ==
    /\ wN = 2
    /\ Len(wItemLog) = 2
    /\ wItemLog[1].raised = "DownloadError"
    /\ wItemLog[2].raised = "none"
    /\ wItemLog[2].texts = 1

\* C20: an exception raised while one item is processed never leaves process_batch
\* and never ends the loop: once the loop is over every item of the batch has been
\* attempted, an item processed without an exception has a stored document for each
\* text it yielded, and with two items where the first item's fetch raises and the
\* second succeeds exactly one document is stored.
C20_ItemIsolation ==
    /\ wPc = "raised" => wItemLog = <<>>
    /\ wPc \in {"ack", "returned"} /\ wBody \in {"object", "array"} => Len(wItemLog) = wN
    /\ \A i \in 1..Len(wItemLog) :
          wItemLog[i].raised = "none" => wItemLog[i].stored = wItemLog[i].texts
    /\ (ClaimFirstFetchRaises /\ wPc = "returned") => (wStored = 1 /\ wAcks = <<wTag>>)

C20_Witness == ClaimFirstFetchRaises /\ wPc = "returned" /\ wStored = 1 /\ wAcks = <<wTag>>

\* C21: a message whose body is an array is acknowledged exactly once, with its
\* delivery tag, and only when every item has been attempted; once it is
\* acknowledged nothing is fetched, stored or acknowledged for it any more, and
\* process_batch never ends without the acknowledgment.
C21_AckOnceAfterAllItems ==
    /\ [](wBody = "array" =>
            /\ Len(wAcks) <= 1
            /\ wAcks # <<>> => (wAcks = <<wTag>> /\ Len(wItemLog) = wN /\ wPc = "returned")
            /\ wPc # "raised"
            /\ wPc = "returned" => wAcks = <<wTag>>)
    /\ [][(wBody = "array" /\ wAcks # <<>>) =>
            (wFetches' = wFetches /\ wStored' = wStored /\ wAcks' = wAcks)]_vars

C21_Witness ==
    /\ wBody = "array"
    /\ wN = 2
    /\ wPc = "returned"
    /\ wAcks = <<wTag>>
    /\ Len(wItemLog) = 2
    /\ wItemLog[1].raised # "none"
    /\ wItemLog[2].stored = 2

\* C22: whatever the body of the message, process_batch ends by returning, never
\* by raising, and has acknowledged the message when it ends.
C22_NeverStalls ==
    /\ wPc # "raised"
    /\ wPc = "returned" => wAcks = <<wTag>>

\* C23: a response record whose extraction yields no text does not end its item:
\* the loop goes on to the item's next record, so no item that carries its
\* timestamp ends at such a record.
C23_NoTextMovesOn ==
    \A i \in 1..Len(wItemLog) :
        (wItemLog[i].item.kind = "complete" /\ wItemLog[i].item.timestamp)
            => wItemLog[i].last # "no_text"

\* tokenize_with_chunks ran on a text that is neither empty nor whitespace and
\* returned chunks.
ClaimChunked == tkPc # "input" /\ tkText = "text" /\ tkResult.status = "success"

\* C24: every chunk tokenize_with_chunks produces for a non-empty, non-whitespace
\* text has input_ids and attention_mask of length max_length.
C24_ChunkLength ==
    ClaimChunked =>
        \A k \in 1..Len(tkResult.chunks) :
            /\ Len(tkResult.chunks[k].input_ids) = tkMax
            /\ Len(tkResult.chunks[k].attention_mask) = tkMax

C24_Witness ==
    /\ ClaimChunked
    /\ Len(tkResult.chunks) >= 2
    /\ tkResult.chunks[Len(tkResult.chunks)].input_ids[tkMax] = pad_token_id
    /\ tkResult.chunks[1].input_ids[tkMax] = sep_token_id
    /\ Len(tkResult.chunks[2].attention_mask) = tkMax

\* C25: for an empty or whitespace-only text tokenize_with_chunks returns the
\* empty-input failure without chunks and without calling the encoder, and
\* create_document raises; no failure on any other text carries that error.
C25_EmptyTextRejected ==
    /\ (tkPc # "input" /\ tkText \in {"", "   "}) =>
          /\ tkResult.status = "failed"
          /\ tkResult.error = EmptyTextError
          /\ "chunks" \notin DOMAIN tkResult
          /\ tkEncCalls = 0
          /\ tkPc = "documented" => tkDoc.raised # "none"
    /\ (tkPc # "input" /\ tkText = "text" /\ tkResult.status = "failed") =>
          tkResult.error # EmptyTextError

C25_Witness ==
    /\ tkText = "   "
    /\ tkPc = "documented"
    /\ tkEncCalls = 0
    /\ tkDoc.raised = "StorageError: Tokenization failed: Empty or whitespace-only text"

\* The offsets of the flat sequence that chunk k (1-based) holds as content.
ClaimWindow(k) ==
    LET o == Range(0, Len(tkEncode.tokens), tkMax - tkStride)[k]
    IN {o + j : j \in 0..(Len(ChunkTokens(tkEncode.tokens, o, tkMax)) - 3)}

\* C26: two consecutive chunks of which the earlier holds a full window share
\* exactly `stride` offsets of the flat sequence.
C26_OverlapIsStride ==
    ClaimChunked =>
        \A k \in 1..(Len(tkResult.chunks) - 1) :
            Cardinality(ClaimWindow(k)) = tkMax - 2 =>
                Cardinality(ClaimWindow(k) \cap ClaimWindow(k + 1)) = tkStride

\* C27: in every chunk the mask is 1 exactly where the id is not the pad id, so a
\* content token that equals the pad id is masked with 0.
C27_MaskIffNotPad ==
    ClaimChunked =>
        \A k \in 1..Len(tkResult.chunks) :
            \A i \in 1..Len(tkResult.chunks[k].input_ids) :
                /\ tkResult.chunks[k].attention_mask[i] \in {0, 1}
                /\ tkResult.chunks[k].attention_mask[i] = 1
                      <=> tkResult.chunks[k].input_ids[i] # pad_token_id

C27_Witness ==
    /\ ClaimChunked
    /\ \E k \in 1..Len(tkResult.chunks) : \E i \in 2..(tkMax - 1) :
          /\ tkResult.chunks[k].input_ids[i] = pad_token_id
          /\ tkResult.chunks[k].attention_mask[i] = 0
          /\ tkResult.chunks[k].input_ids[i + 1] = sep_token_id

\* ceil(n / step)
ClaimCeilDiv(n, step) == (n + step - 1) \div step

\* The input_ids the claim gives chunk k (0-based).
ClaimChunk(k) ==
    LET n == Len(tkEncode.tokens)
        lo == k * (tkMax - tkStride)
        hi == IF lo + tkMax - 2 < n THEN lo + tkMax - 2 ELSE n
        content == IF hi <= lo THEN <<>> ELSE SubSeq(tkEncode.tokens, lo + 1, hi)
    IN <<cls_token_id>> \o content \o <<sep_token_id>>
       \o [i \in 1..(tkMax - 2 - Len(content)) |-> pad_token_id]

\* C30: for a flat sequence of n >= 1 tokens tokenize_with_chunks returns
\* ceil(n / (max_length - stride)) chunks, chunk k being cls, the tokens at offsets
\* [k*step, min(k*step + max_length - 2, n)), sep, and pad ids up to max_length.
C30_Windowing ==
    (tkPc # "input" /\ tkText = "text" /\ ~tkEncode.raises /\ Len(tkEncode.tokens) >= 1) =>
        /\ tkResult.status = "success"
        /\ Len(tkResult.chunks) = ClaimCeilDiv(Len(tkEncode.tokens), tkMax - tkStride)
        /\ \A k \in 1..Len(tkResult.chunks) :
              /\ tkResult.chunks[k].input_ids = ClaimChunk(k - 1)
              /\ tkResult.chunks[k].chunk_index = k - 1

C30_Witness ==
    /\ ClaimChunked
    /\ Len(tkResult.chunks) = 3
    /\ tkMax - tkStride = 1
    /\ Len(tkEncode.tokens) = 3
    /\ tkResult.chunks[1].input_ids = <<cls_token_id>> \o SubSeq(tkEncode.tokens, 1, 2)
                                          \o <<sep_token_id>>
    /\ tkResult.chunks[3].input_ids = <<cls_token_id, tkEncode.tokens[3], sep_token_id,
                                        pad_token_id>>

\* C31: when a text that is neither empty nor whitespace encodes to no tokens,
\* tokenize_with_chunks returns the "no chunks" failure, which is not the
\* empty-input failure, after one call of the encoder, and create_document raises
\* instead of returning a document.
C31_NoChunksFailure ==
    (tkPc # "input" /\ tkText = "text" /\ ~tkEncode.raises /\ tkEncode.tokens = <<>>) =>
        /\ tkResult.status = "failed"
        /\ tkResult.error = NoChunksError
        /\ tkResult.error # EmptyTextError
        /\ "chunks" \notin DOMAIN tkResult
        /\ tkEncCalls = 1
        /\ tkPc = "documented" =>
              /\ tkDoc.raised = "StorageError: Tokenization failed: No chunks created"
              /\ "chunks" \notin DOMAIN tkDoc

C31_Witness ==
    /\ tkPc = "documented"
    /\ tkText = "text"
    /\ ~tkEncode.raises
    /\ tkEncode.tokens = <<>>
    /\ tkResult.error = NoChunksError
    /\ tkDoc.raised # "none"

\* C32: a document returned by create_document has total_chunks equal to the
\* number of its chunks and at least 1, chunk_index values 0, 1, ... in order,
\* metadata.original_length equal to the length of the flat token sequence, and
\* metadata.stride and metadata.max_length equal to the tokenizer's parameters.
C32_DocumentConsistent ==
    (tkPc = "documented" /\ tkDoc.raised = "none") =>
        /\ tkDoc.total_chunks = Len(tkDoc.chunks)
        /\ tkDoc.total_chunks >= 1
        /\ \A k \in 1..Len(tkDoc.chunks) : tkDoc.chunks[k].chunk_index = k - 1
        /\ tkDoc.metadata.original_length = Len(tkEncode.tokens)
        /\ tkDoc.metadata.stride = tkStride
        /\ tkDoc.metadata.max_length = tkMax

C32_Witness ==
    /\ tkPc = "documented"
    /\ tkDoc.raised = "none"
    /\ tkDoc.total_chunks = 2
    /\ tkDoc.chunks[2].chunk_index = 1
    /\ tkDoc.metadata.original_length = 4
    /\ tkDoc.metadata.stride = 3
    /\ tkDoc.metadata.max_length = 5

\* C33: when the run goes on after a flush whose publish call succeeded, every
\* item of the published batch has its marker and the in-flight batch is empty;
\* while the run continues no successfully published item is without a marker.
C33_FlushCompletes ==
    /\ [][(pc = "mark" /\ pc' \in {"line", "next_row"}) =>
            (found_urls' = <<>> /\ KeysOf(found_urls) \subseteq marked')]_vars
    /\ [](pc \in {"line", "next_row", "fetch"} => pubOkKeys \subseteq marked)

\* The byte range of attempted item i was read and held no record of type
\* "response".
ClaimNoResponse(i) ==
    /\ wItemLog[i].item.kind = "complete"
    /\ wItemLog[i].last # "none"
    /\ \A k \in 1..Len(wItemLog[i].recs) : wItemLog[i].recs[k] \in {"non_response", "iter_raises"}

\* C34: for an item whose byte range holds no response record the scraper yields
\* no text and no document is stored; the message of such an item is acknowledged
\* when process_batch is over, and stores nothing when all its items are of that
\* kind.
C34_OnlyResponses ==
    /\ \A i \in 1..Len(wItemLog) :
          ClaimNoResponse(i) => (wItemLog[i].texts = 0 /\ wItemLog[i].stored = 0)
    /\ (\E i \in 1..Len(wItemLog) : ClaimNoResponse(i)) =>
          /\ wPc # "raised"
          /\ wPc = "returned" => wAcks = <<wTag>>
    /\ (wPc \in {"ack", "returned"} /\ \A i \in 1..Len(wItemLog) : ClaimNoResponse(i)) =>
          wStored = 0

C34_Witness ==
    /\ wPc = "returned"
    /\ wAcks = <<wTag>>
    /\ Len(wItemLog) = 1
    /\ wItemLog[1].recs = <<"non_response", "non_response">>
    /\ wItemLog[1].last = "end"
    /\ wItemLog[1].raised = "none"
    /\ wStored = 0

\* This step is a publish call that succeeds.
ClaimPublishedNow ==
    /\ pc = "publish"
    /\ Len(pubCalls') > Len(pubCalls)
    /\ pubCalls'[Len(pubCalls')].ok

\* C35: in a run in which no mark_processed call has failed, a batch that is
\* published successfully holds every identity at one position only, and holds no
\* identity that an earlier batch of the run published successfully.
C35_PublishedOnce ==
    [][(ClaimPublishedNow /\ markFails = 0) =>
        /\ \A i, j \in 1..Len(found_urls) :
              (found_urls[i].surt_url = found_urls[j].surt_url
                 /\ found_urls[i].timestamp = found_urls[j].timestamp) => i = j
        /\ \A i \in 1..Len(found_urls) :
              _generate_key(found_urls[i].surt_url, found_urls[i].timestamp)
                  \notin pubOkKeys]_vars

RECURSIVE ClaimPublishedItems(_)
\* The number of items in the batches whose publish call succeeded.
ClaimPublishedItems(calls) ==
    IF calls = <<>> THEN 0
    ELSE (IF Head(calls).ok THEN Head(calls).size ELSE 0) + ClaimPublishedItems(Tail(calls))

\* C36: every accepted document is in at most one successfully published batch,
\* also after a failed mark_processed call: the successfully published batches
\* together never hold more items than documents were accepted, and when the run
\* goes on after a successful publish the published batch is no longer in flight.
C36_NoRepublish ==
    /\ [](ClaimPublishedItems(pubCalls) <= nAccepted)
    /\ [][(pc = "mark" /\ pc' \in {"line", "next_row"}) => found_urls' = <<>>]_vars

\* No fetch, publish or mark call of the run has failed.
ClaimNoFailure ==
    /\ fetchFails = 0
    /\ markFails = 0
    /\ \A i \in DOMAIN pubCalls : pubCalls[i].ok

\* C37: in a run without a failed fetch, publish or mark call the published
\* batches, concatenated in publish order, are at every moment the first accepted
\* documents in acceptance order and, when the run is over, all of them; each
\* accepted document is the url, timestamp and parsed metadata of its line.
C37_Conservation ==
    /\ [](ClaimNoFailure =>
            /\ Len(pubDocs) <= Len(accDocs)
            /\ pubDocs = SubSeq(accDocs, 1, Len(pubDocs))
            /\ pc \notin {"publish", "mark"} =>
                  accDocs = pubDocs \o (IF pc = "done" THEN <<>> ELSE found_urls)
            /\ pc # "raised")
    /\ [][(pc = "line" /\ Len(accDocs') > Len(accDocs)) =>
            accDocs' = Append(accDocs, [surt_url |-> last'.line.url,
                                        timestamp |-> last'.line.timestamp,
                                        metadata |-> last'.line.tail.value])]_vars

C37_Witness ==
    /\ ClaimNoFailure
    /\ pc = "done"
    /\ Len(pubCalls) = 2
    /\ Len(accDocs) = 3
    /\ accDocs[2] # accDocs[3]
    /\ pubDocs = accDocs

ClaimSeenAgain ==
    /\ ClaimEnglish200(last'.line)
    /\ _generate_key(last'.line.url, last'.line.timestamp) \in runUnmarked \ marked
    /\ last'.stat = "answers"

\* C28: when the process dies after a batch was published and before all of its
\* items are marked, the identities not yet marked are published and absent from
\* the marker store, the restart leaves the store as it is, and a later run that
\* meets such an identity on a line passing the filters appends it to its batch.
C28_RepublishAfterCrash ==
    /\ [](pc = "crashed" =>
            (runUnmarked \cap marked = {} /\ runUnmarked \subseteq pubOkKeys))
    /\ [][pc = "crashed" =>
            (marked' = marked /\ runPrevPublished' = runPrevPublished \cup pubOkKeys)]_vars
    /\ [][(runNo >= 2 /\ pc = "line" /\ ClaimSeenAgain) => ClaimAppended(last'.line)]_vars

\* The same identity is published by two runs.
C28_Witness ==
    /\ runNo = 2
    /\ pubOkKeys \cap runPrevPublished \cap runUnmarked # {}

\* C29: a worker never holds more than one unacknowledged message, and a
\* message is delivered to a worker only when the worker holds none and every
\* message it took up before has had all its items attempted and was acknowledged,
\* with two workers consuming from the same queue.
C29_OneInFlight ==
    /\ [](\A w \in DOMAIN qHeld : Cardinality(qHeld[w]) <= 1)
    /\ [][\A w \in DOMAIN qHeld :
            Len(qInbox'[w]) > Len(qInbox[w]) =>
                /\ qHeld[w] = {}
                /\ qPc[w] = "idle"
                /\ \A k \in 1..Len(qHist[w]) :
                      qHist[w][k].acked /\ qHist[w][k].attempted = qHist[w][k].n]_vars

\* A worker has worked through a message of two items and holds the next one while
\* the other worker is busy.
C29_Witness ==
    \E w \in DOMAIN qHeld, v \in DOMAIN qHeld :
        /\ w # v
        /\ Len(qHist[w]) = 1
        /\ qHist[w][1].acked
        /\ qHist[w][1].attempted = 2
        /\ Cardinality(qHeld[w]) = 1
        /\ qPc[v] = "item"

\* A row the claim calls well-formed: at least 5 fields, offset and length numerals,
\* the length not negative.
ClaimNumerals == {"0", "1", "1000"}
ClaimWellFormed(row) ==
    /\ Len(row) >= 5
    /\ row[3] \in ClaimNumerals
    /\ row[4] \in ClaimNumerals

\* C13: next() on a malformed row (fewer than 5 fields, non-numeric offset or
\* length, negative length) fails with ValueError instead of returning the row,
\* and the next call goes on with the following row.
C13_MalformedRowsRejected ==
    \A i \in 1..rdPos :
        IF ClaimWellFormed(rdRows[i])
           THEN rdResults[i] = rdRows[i]
           ELSE rdResults[i] = <<"ValueError">>

\* C14: once the `with` block of an opened CSVIndexReader is left, normally, by
\* abandoning the iteration or by an exception, the file is closed, exactly once;
\* inside the block it is open and not yet closed.
C14_FileReleased ==
    /\ (rdScope = "after" /\ rdExit # "open_failed") => (rdFile = "closed" /\ rdCloses = 1)
    /\ rdScope = "inside" => (rdFile = "open" /\ rdCloses = 0)
    /\ rdExit = "open_failed" => (rdFile = "none" /\ rdCloses = 0)

C14_Witness ==
    /\ rdScope = "after"
    /\ rdExit = "error"
    /\ rdPos >= 1
    /\ rdFile = "closed"

TypeOK ==
    /\ pc \in {"next_row", "fetch", "line", "publish", "mark", "done", "raised"}
    /\ rowIdx \in 0..nRows
    /\ linesLeft \in 0..MaxTotalLines
    /\ attempt \in 0..StopAfterAttempt
====
